---- MODULE Spec2Model ----
(***************************************************************************)
(* Record store, feed parser, change detector and reconciler of the        *)
(* eCourts case tracker (src/ecourts_webapp/database.py, CaseDatabase).     *)
(*                                                                          *)
(* Values.  A column value or JSON scalar is a string, NULL (SQL NULL,       *)
(* Python None, JSON null) or ZERO (the JSON number 0, the falsy scalar     *)
(* that is neither null nor text).  A JSON object (Python dict) is a       *)
(* function from key names to values; a key the object does not carry is   *)
(* simply outside its DOMAIN.                                               *)
(***************************************************************************)
EXTENDS Integers, Sequences, FiniteSets, TLC

VARIABLES
    cases,          \* table cases: cino -> row
    case_history,   \* table case_history: sequence of rows, index = id
    now,            \* CURRENT_TIMESTAMP, in whole seconds
    op,             \* the operation that ran last (name and addressed cino)
    ret,            \* what that operation returned to its caller
    conn            \* the connections of the calls that run side by side

vars == <<cases, case_history, now, op, ret, conn>>

\* ---------------------------------------------------------------- bounds
MaxBatch == 2       \* entries in one feed
MaxHist == 2        \* rows in case_history
MaxTime == 1        \* seconds the clock may advance

\* ---------------------------------------------------------------- values
NULL == "<NULL>"

ZERO == "<0>"

\* Python truthiness of a value: None, '' and 0 are falsy.
Truthy(v) == v \notin {NULL, "", ZERO}

\* str(v) of a value that is not None
Str(v) == IF v = ZERO THEN "0" ELSE v

\* A value bound to a column declared TEXT: a number is stored as its text.
AsText(v) == IF v = ZERO THEN "0" ELSE v

\* dict.get(key, default)
Get(d, k, default) == IF k \in DOMAIN d THEN d[k] ELSE default

\* The twelve compared columns, in the order of field_mapping (row index 2..13).
Tracked ==
    << "case_no", "petparty_name", "resparty_name", "establishment_name",
       "state_name", "district_name", "date_next_list", "date_last_list",
       "purpose_name", "type_name", "court_no_desg_name", "disp_name" >>

TrackedSet == {Tracked[i] : i \in 1..Len(Tracked)}

\* ------------------------------------------------------- incoming entries
\* One element of data_list.  t = "dict": a JSON object with top-level keys d;
\* raw is <<>> when the object carries no 'raw_data' key and <<n>> when its
\* 'raw_data' is the JSON text of the object n.  t = "other": any JSON value
\* that is not an object.
Entry(d, raw) == [t |-> "dict", d |-> d, raw |-> raw]

NoKeys == [k \in {} |-> ""]

NotDict == [t |-> "other", d |-> NoKeys, raw |-> <<>>]

\* ---------------------------------------------------- change detection
\* _detect_changes: one pass over field_mapping.
RECURSIVE detect_from(_, _, _)
detect_from(existing_case, new_data, idx) ==
    IF idx > Len(Tracked) THEN <<>>
    ELSE LET field_name == Tracked[idx]
             old_value == IF existing_case[field_name] /= NULL
                          THEN existing_case[field_name] ELSE ""
             got == Get(new_data, field_name, "")
             new_value == Str(IF Truthy(got) THEN got ELSE "")
             rest == detect_from(existing_case, new_data, idx + 1)
         IN  IF old_value /= new_value
             THEN <<[field |-> field_name, old_value |-> old_value,
                     new_value |-> new_value]>> \o rest
             ELSE rest

detect_changes(existing_case, new_data) == detect_from(existing_case, new_data, 1)

\* get_field_value: the top-level value, else the value nested in raw_data.
get_field_value(field_name, case_data) ==
    LET outer_value == Get(case_data.d, field_name, "")
    IN  IF ~Truthy(outer_value) /\ case_data.raw /= <<>>
        THEN LET inner_value == Get(case_data.raw[1], field_name, "")
             IN  IF Truthy(inner_value) THEN inner_value ELSE outer_value
        ELSE IF Truthy(outer_value) THEN outer_value ELSE ""

\* ------------------------------------------------------------- the store
\* A database as the handlers see it through one connection.
Db(cs, h) == [cases |-> cs, hist |-> h]

\* One row of case_history; its id is its index in the sequence.
HistRow(cino, field_name, old_value, new_value, t) ==
    [cino |-> cino, field_name |-> field_name, old_value |-> old_value,
     new_value |-> new_value, changed_at |-> t]

\* The change summary: one "field: old -> new" text per delta, kept as the
\* triple the text is formatted from.
summary_of(changes) ==
    [i \in 1..Len(changes) |->
        <<changes[i].field, changes[i].old_value, changes[i].new_value>>]

\* The values _insert_new_case binds to its INSERT: the row of a new case.
new_case_row(case_data, t) ==
    LET reg(k) == LET v == Get(case_data.d, k, NULL)
                  IN  IF Truthy(v) THEN v ELSE NULL
    IN  [f \in TrackedSet |-> AsText(get_field_value(f, case_data))] @@
        [ raw_data |-> case_data,
          reg_no |-> reg("reg_no"),
          reg_year |-> reg("reg_year"),
          is_changed |-> FALSE,
          date_of_decision |-> AsText(get_field_value("date_of_decision", case_data)),
          user_notes |-> AsText(get_field_value("user_notes", case_data)),
          user_side |-> AsText(get_field_value("user_side", case_data)),
          change_summary |-> <<>>,
          updated_at |-> t ]

\* The debug logging of _insert_new_case slices the extracted petparty_name,
\* which raises TypeError when that value is no string.
insert_raises(case_data) ==
    get_field_value("petparty_name", case_data) \in {NULL, ZERO}

\* _insert_new_case: the INSERT INTO cases of one incoming record.
insert_new_case(db, case_data, t) ==
    Db(db.cases @@ (get_field_value("cino", case_data) :> new_case_row(case_data, t)),
       db.hist)

\* An update that writes the row and logs no history row.
update_case_row_only(db, cino, case_data, changes, t) ==
    LET old == db.cases[cino]
        row == [f \in TrackedSet |-> AsText(get_field_value(f, case_data))] @@
               [ is_changed |-> TRUE,
                 change_summary |-> summary_of(changes),
                 raw_data |-> case_data,
                 updated_at |-> t,
                 reg_no |-> Get(case_data.d, "reg_no", NULL),
                 reg_year |-> Get(case_data.d, "reg_year", NULL),
                 user_notes |-> AsText(get_field_value("user_notes", case_data)),
                 user_side |-> AsText(get_field_value("user_side", case_data)),
                 date_of_decision |-> old.date_of_decision ]
    IN  Db([db.cases EXCEPT ![cino] = row], db.hist)

\* _update_case_with_changes: the UPDATE of the row and one history row per
\* delta.
update_case_with_changes(db, cino, case_data, changes, t) ==
    LET old == db.cases[cino]
        row == [f \in TrackedSet |-> AsText(get_field_value(f, case_data))] @@
               [ is_changed |-> TRUE,
                 change_summary |-> summary_of(changes),
                 raw_data |-> case_data,
                 updated_at |-> t,
                 reg_no |-> Get(case_data.d, "reg_no", NULL),
                 reg_year |-> Get(case_data.d, "reg_year", NULL),
                 user_notes |-> AsText(get_field_value("user_notes", case_data)),
                 user_side |-> AsText(get_field_value("user_side", case_data)),
                 date_of_decision |-> old.date_of_decision ]
        added == [i \in 1..Len(changes) |->
                    HistRow(cino, changes[i].field, changes[i].old_value,
                            changes[i].new_value, t)]
    IN  Db([db.cases EXCEPT ![cino] = row], db.hist \o added)

\* A loop that skips only the entries that are no dict.
skip_entry_no_dict_only(case_data) == case_data.t /= "dict"

\* The two  continue  tests of the for loop: the entry is no dict, or its
\* cino is missing or empty.
skip_entry(case_data) ==
    case_data.t /= "dict" \/ ~Truthy(Get(case_data.d, "cino", NULL))

\* An unchanged branch that clears the review flag of the row.
count_unchanged_clearing(st, cino, t) ==
    [st EXCEPT !.stats.unchanged = @ + 1, !.seen = "unchanged",
               !.db.cases[cino].is_changed = FALSE]

\* An unchanged branch that stamps the row with the time of the ingest.
count_unchanged_touching(st, cino, t) ==
    [st EXCEPT !.stats.unchanged = @ + 1, !.seen = "unchanged",
               !.db.cases[cino].updated_at = t]

\* The  else  of  if changes : only the counter moves.
count_unchanged(st, cino, t) ==
    [st EXCEPT !.stats.unchanged = @ + 1, !.seen = "unchanged"]

\* The body of the for loop of process_daily_file for one entry: st carries
\* the database, the counters, and what the loop did with the entry last
\* processed (seen: "skipped", "new", "updated", "unchanged", or "raised"
\* when the entry raised an exception).
process_entry(st, case_data, t) ==
    IF skip_entry(case_data) THEN [st EXCEPT !.seen = "skipped"]
    ELSE LET cino == Get(case_data.d, "cino", NULL)
         IN  IF cino \in DOMAIN st.db.cases
             THEN LET changes == detect_changes(st.db.cases[cino], case_data.d)
                  IN  IF changes /= <<>>
                      THEN [st EXCEPT
                              !.db = update_case_with_changes(st.db, cino, case_data, changes, t),
                              !.stats.updated = @ + 1,
                              !.seen = "updated"]
                      ELSE count_unchanged(st, cino, t)
             ELSE IF insert_raises(case_data) THEN [st EXCEPT !.seen = "raised"]
             ELSE [st EXCEPT !.db = insert_new_case(st.db, case_data, t),
                             !.stats.new = @ + 1,
                             !.seen = "new"]

ZeroStats == [new |-> 0, updated |-> 0, unchanged |-> 0]

LoopStart(db) == [db |-> db, stats |-> ZeroStats, seen |-> "none"]

\* The for loop over the first n entries of data_list; an exception ends it.
RECURSIVE process_entries(_, _, _, _)
process_entries(db, data_list, n, t) ==
    IF n = 0 THEN LoopStart(db)
    ELSE LET before == process_entries(db, data_list, n - 1, t)
         IN  IF before.seen = "raised" THEN before
             ELSE process_entry(before, data_list[n], t)

\* --------------------------------------------------------- the feed parser
\* The text of a feed file, by what json.loads makes of it:
\*   shape "blank"  : nothing but whitespace;
\*   shape "object" : one JSON object, items[1];
\*   shape "list"   : one JSON list of the values items; oneline tells
\*                    whether the text sits on a single line;
\*   shape "lines"  : text that is no single JSON list or object; items are
\*                    its lines.
\* An item is an Entry with t among
\*   "dict"      a JSON object (in a list) / a line holding one JSON object,
\*   "other"     a JSON value that is neither object nor string / a line
\*               holding a JSON value that is no object,
\*   "str_dict"  a JSON string whose content is the JSON text of an object,
\*   "str_other" a JSON string whose content is JSON text of another value,
\*   "str_bad"   a JSON string whose content is not JSON,
\*   "blank"     an empty line,
\*   "bad"       a line that is not JSON.
Item(t, e) == [t |-> t, d |-> e.d, raw |-> e.raw]

Parsed(data_list) == [error |-> "", data_list |-> data_list]

Failed(msg) == [error |-> msg, data_list |-> <<>>]

IsStr(item) == item.t \in {"str_dict", "str_other", "str_bad"}

\* json.loads(item) for a str item that holds JSON
loads_item(item) ==
    IF item.t = "str_dict" THEN Entry(item.d, item.raw) ELSE NotDict

\* Format 2, one JSON value per line: blank lines are skipped, the first
\* line that does not parse ends the parse with an error.
parse_lines(lines) ==
    IF \E i \in 1..Len(lines) : lines[i].t = "bad"
    THEN Failed("Invalid JSON format")
    ELSE Parsed(SelectSeq(lines, LAMBDA l : l.t /= "blank"))

\* The lines of a feed whose text was one JSON list that the first try
\* rejected: on one line, that line parses to the list itself; spread over
\* several lines, its first line is an unclosed list.
lines_of_list(feed) ==
    IF feed.oneline THEN <<NotDict>> ELSE <<Item("bad", NotDict)>>

\* process_daily_file up to "if not data_list": the parse strategies in order.
parse_feed(feed) ==
    LET items == feed.items
        tried ==
            CASE feed.shape = "list" /\ (\A i \in 1..Len(items) : IsStr(items[i])) ->
                    IF \E i \in 1..Len(items) : items[i].t = "str_bad"
                    THEN parse_lines(lines_of_list(feed))
                    ELSE Parsed([i \in 1..Len(items) |-> loads_item(items[i])])
              [] feed.shape = "list" /\ (\A i \in 1..Len(items) : items[i].t = "dict") ->
                    Parsed(items)
              [] feed.shape = "list" -> parse_lines(lines_of_list(feed))
              [] feed.shape = "object" -> Parsed(<<items[1]>>)
              [] OTHER -> parse_lines(items)
    IN  IF feed.shape = "blank" THEN Failed("File is empty")
        ELSE IF tried.error /= "" THEN tried
        ELSE IF tried.data_list = <<>> THEN Failed("No valid case data found in file")
        ELSE tried

\* An ingest without the outermost except clause: an exception of the loop
\* leaves the function instead of being returned as an error.
process_daily_file_propagating(db, feed, t) ==
    LET p == parse_feed(feed)
        st == process_entries(db, p.data_list, Len(p.data_list), t)
    IN  IF p.error /= ""
        THEN [db |-> db, ret |-> [error |-> p.error]]
        ELSE IF st.seen = "raised"
        THEN [db |-> db, ret |-> [raised |-> "TypeError"]]
        ELSE [db |-> st.db, ret |-> st.stats]

\* process_daily_file as a function of the database: the database it leaves
\* and the value it returns.  An exception in the loop is caught at the end
\* of the function, after which nothing of the batch is committed.
process_daily_file_on(db, feed, t) ==
    LET p == parse_feed(feed)
        st == process_entries(db, p.data_list, Len(p.data_list), t)
    IN  IF p.error /= ""
        THEN [db |-> db, ret |-> [error |-> p.error]]
        ELSE IF st.seen = "raised"
        THEN [db |-> db, ret |-> [error |-> "Processing failed"]]
        ELSE [db |-> st.db, ret |-> st.stats]

\* ------------------------------------------------- manual creation, notes
\* A manual creation without the look-up of the cino: the row of a stored
\* cino is written over.
create_new_case_replacing(db, case_data, t) ==
    IF insert_raises(case_data)
    THEN [db |-> db, ret |-> [ok |-> FALSE]]
    ELSE LET cino == get_field_value("cino", case_data)
         IN  [db |-> Db((cino :> new_case_row(case_data, t)) @@ db.cases, db.hist),
              ret |-> [ok |-> TRUE]]

\* create_new_case: a duplicate of the top-level cino is refused before the
\* insert, and an exception of the insert (its logging, or the UNIQUE
\* constraint when the cino comes from raw_data) is reported as a failure.
create_new_case_on(db, case_data, t) ==
    IF Get(case_data.d, "cino", NULL) \in DOMAIN db.cases
    THEN [db |-> db, ret |-> [ok |-> FALSE]]
    ELSE IF insert_raises(case_data)
    THEN [db |-> db, ret |-> [ok |-> FALSE]]
    ELSE IF get_field_value("cino", case_data) \in DOMAIN db.cases
    THEN [db |-> db, ret |-> [ok |-> FALSE]]
    ELSE [db |-> insert_new_case(db, case_data, t), ret |-> [ok |-> TRUE]]

\* UPDATE cases SET <assignments> WHERE cino = ?: the table after it.
update_where(cs, cino, assignments) ==
    IF cino \in DOMAIN cs THEN [cs EXCEPT ![cino] = assignments @@ @] ELSE cs

\* update_case_notes without other_updates: no history row, updated_at kept.
update_case_notes_on(db, cino, notes) ==
    [db |-> Db(update_where(db.cases, cino, [user_notes |-> notes]), db.hist),
     ret |-> [ok |-> TRUE]]

\* --------------------------------------------------------- mark reviewed
\* A review that logs its history row and leaves the flag as it is.
mark_case_as_reviewed_keeping_flag(db, cino, t) ==
    [db |-> Db(update_where(db.cases, cino, [updated_at |-> t]),
               Append(db.hist, HistRow(cino, "marked_reviewed", "pending", "reviewed", t))),
     ret |-> [ok |-> TRUE]]

\* mark_case_as_reviewed: success is cursor.rowcount > 0 read after the
\* INSERT INTO case_history, whose rowcount is 1.
mark_case_as_reviewed_on(db, cino, t) ==
    LET cs == update_where(db.cases, cino, [is_changed |-> FALSE, updated_at |-> t])
        h  == Append(db.hist, HistRow(cino, "marked_reviewed", "pending", "reviewed", t))
        rowcount == 1
    IN  [db |-> Db(cs, h), ret |-> [ok |-> rowcount > 0]]

\* A bulk review that counts every listed cino, stored or not.
RECURSIVE mark_multiple_loop_counting_all(_, _, _, _)
mark_multiple_loop_counting_all(db, cinos, n, t) ==
    IF n = 0 THEN [db |-> db, count |-> 0]
    ELSE LET before == mark_multiple_loop_counting_all(db, cinos, n - 1, t)
             cino == cinos[n]
         IN  [db |-> Db(update_where(before.db.cases, cino,
                                     [is_changed |-> FALSE, updated_at |-> t]),
                        Append(before.db.hist,
                               HistRow(cino, "bulk_marked_reviewed", "pending",
                                       "reviewed", t))),
              count |-> before.count + 1]

\* mark_multiple_cases_as_reviewed: the loop over the first n cinos; count is
\* marked_count.
RECURSIVE mark_multiple_loop(_, _, _, _)
mark_multiple_loop(db, cinos, n, t) ==
    IF n = 0 THEN [db |-> db, count |-> 0]
    ELSE LET before == mark_multiple_loop(db, cinos, n - 1, t)
             cino == cinos[n]
             cs == update_where(before.db.cases, cino,
                                [is_changed |-> FALSE, updated_at |-> t])
             rowcount == IF cino \in DOMAIN before.db.cases THEN 1 ELSE 0
             h == Append(before.db.hist,
                         HistRow(cino, "bulk_marked_reviewed", "pending", "reviewed", t))
         IN  [db |-> Db(cs, h),
              count |-> before.count + (IF rowcount > 0 THEN 1 ELSE 0)]

mark_multiple_cases_as_reviewed_on(db, cinos, t) ==
    LET r == mark_multiple_loop(db, cinos, Len(cinos), t)
    IN  [db |-> r.db, ret |-> [count |-> r.count]]

\* remove_from_reviewed_keep_notes: the UPDATE hits only rows with
\* is_changed = FALSE; the history row is written for every listed cino.
RECURSIVE remove_keep_notes_loop(_, _, _, _)
remove_keep_notes_loop(db, cinos, n, t) ==
    IF n = 0 THEN [db |-> db, count |-> 0]
    ELSE LET before == remove_keep_notes_loop(db, cinos, n - 1, t)
             cino == cinos[n]
             hit == cino \in DOMAIN before.db.cases
                    /\ before.db.cases[cino].is_changed = FALSE
             cs == IF hit
                   THEN update_where(before.db.cases, cino,
                                     [is_changed |-> TRUE, updated_at |-> t])
                   ELSE before.db.cases
             h == Append(before.db.hist,
                         HistRow(cino, "removed_from_reviewed", "reviewed", "pending", t))
         IN  [db |-> Db(cs, h), count |-> before.count + (IF hit THEN 1 ELSE 0)]

remove_from_reviewed_keep_notes_on(db, cinos, t) ==
    LET r == remove_keep_notes_loop(db, cinos, Len(cinos), t)
    IN  [db |-> r.db, ret |-> [count |-> r.count]]

\* update_case_user_side: the old value is read first and logged.
update_case_user_side_on(db, cino, user_side, t) ==
    LET old_user_side == IF cino \in DOMAIN db.cases
                         THEN db.cases[cino].user_side ELSE ""
        cs == update_where(db.cases, cino, [user_side |-> user_side, updated_at |-> t])
        h  == Append(db.hist,
                     HistRow(cino, "user_side_updated",
                             IF Truthy(old_user_side) THEN old_user_side ELSE "",
                             user_side, t))
        rowcount == 1
    IN  [db |-> Db(cs, h), ret |-> [ok |-> rowcount > 0]]

\* ------------------------------------------- review with a full snapshot
\* Python's  x or ''  and  x or None
OrEmpty(v) == IF Truthy(v) THEN v ELSE ""

OrNone(v) == IF Truthy(v) THEN v ELSE NULL

\* current_state of update_case_notes_and_mark_reviewed: the selected
\* columns, each  or '' , reg_no and reg_year as they are.
snapshot_of(cino, row) ==
    [f \in TrackedSet \cup {"user_notes", "user_side", "date_of_decision"} |->
        OrEmpty(row[f])] @@
    [cino |-> OrEmpty(cino), reg_no |-> row.reg_no, reg_year |-> row.reg_year]

\* update_case_notes_and_mark_reviewed(cino, notes, next_hearing_date,
\* date_of_decision): None is NULL here.
update_case_notes_and_mark_reviewed_on(db, cino, notes, next_hearing_date, date_of_decision, t) ==
    IF cino \notin DOMAIN db.cases THEN [db |-> db, ret |-> [ok |-> FALSE]]
    ELSE LET current_state == snapshot_of(cino, db.cases[cino])
             with_date == IF Truthy(next_hearing_date)
                          THEN [date_next_list |-> next_hearing_date] ELSE NoKeys
             with_decision == IF Truthy(date_of_decision)
                              THEN [date_of_decision |-> date_of_decision] ELSE NoKeys
             changed == with_decision @@ with_date @@ [user_notes |-> notes]
             new_state == changed @@ current_state
             cs == update_where(db.cases, cino,
                                changed @@ [is_changed |-> FALSE, updated_at |-> t])
             h == Append(db.hist,
                         HistRow(cino, "complete_state_before_review",
                                 current_state, new_state, t))
             rowcount == 1
         IN  [db |-> Db(cs, h), ret |-> [ok |-> rowcount > 0]]

\* ------------------------------------------------------------- un-review
\* The rows of  WHERE cino = ? AND field_name = 'complete_state_before_review'
Snapshots(h, cino) ==
    {i \in 1..Len(h) : h[i].cino = cino
                       /\ h[i].field_name = "complete_state_before_review"}

\* ORDER BY changed_at DESC LIMIT 1: changed_at counts whole seconds, and
\* SQL leaves the order of rows with equal changed_at open, so every row of
\* the latest second may be the one fetched.  0 stands for "no row".
FetchLatestSnapshot(h, cino) ==
    LET S == Snapshots(h, cino)
    IN  IF S = {} THEN {0}
        ELSE {i \in S : \A j \in S : h[j].changed_at <= h[i].changed_at}

\* restore_complete_case_state_and_unmark, history_result being row `fetched`.
restore_complete_case_state_and_unmark_on(db, cino, fetched, t) ==
    LET rowcount == 1
    IN  IF fetched /= 0
        THEN LET previous_state == db.hist[fetched].old_value
                 cs == update_where(db.cases, cino,
                         [f \in TrackedSet \cup {"user_notes", "user_side"} |->
                             Get(previous_state, f, "")] @@
                         [ reg_no |-> Get(previous_state, "reg_no", NULL),
                           reg_year |-> Get(previous_state, "reg_year", NULL),
                           date_of_decision |->
                               OrNone(Get(previous_state, "date_of_decision", "")),
                           is_changed |-> TRUE,
                           updated_at |-> t ])
                 h == Append(db.hist,
                             HistRow(cino, "complete_state_restored",
                                     "reviewed_state", previous_state, t))
             IN  [db |-> Db(cs, h), ret |-> [ok |-> rowcount > 0]]
        ELSE LET cs == update_where(db.cases, cino,
                         [ user_notes |-> "", date_of_decision |-> NULL,
                           user_side |-> "", is_changed |-> TRUE,
                           updated_at |-> t ])
                 h == Append(db.hist,
                             HistRow(cino, "fallback_clear_user_data",
                                     "reviewed_state", "cleared_user_additions", t))
             IN  [db |-> Db(cs, h), ret |-> [ok |-> rowcount > 0]]

\* restore_all_fields_and_unmark_reviewed: the older variant, four columns.
restore_all_fields_and_unmark_reviewed_on(db, cino, fetched, t) ==
    LET rowcount == 1
    IN  IF fetched /= 0
        THEN LET previous_state == db.hist[fetched].old_value
                 cs == update_where(db.cases, cino,
                         [ user_notes |-> Get(previous_state, "user_notes", ""),
                           date_next_list |-> Get(previous_state, "date_next_list", ""),
                           date_of_decision |->
                               OrNone(Get(previous_state, "date_of_decision", NULL)),
                           user_side |-> Get(previous_state, "user_side", ""),
                           is_changed |-> TRUE,
                           updated_at |-> t ])
                 h == Append(db.hist,
                             HistRow(cino, "complete_state_restored",
                                     db.hist[fetched].new_value, previous_state, t))
             IN  [db |-> Db(cs, h), ret |-> [ok |-> rowcount > 0]]
        ELSE LET cs == update_where(db.cases, cino,
                         [ user_notes |-> "", date_of_decision |-> NULL,
                           user_side |-> "", is_changed |-> TRUE,
                           updated_at |-> t ])
                 h == Append(db.hist,
                             HistRow(cino, "fallback_clear",
                                     "reviewed_state", "cleared_user_data", t))
             IN  [db |-> Db(cs, h), ret |-> [ok |-> rowcount > 0]]

\* ----------------------------------------------------------------- inputs
Cinos == {"K1", "K2"}

\* Incoming records.  E1 and E2 differ in one tracked field; E3 carries its
\* case number only in the nested raw_data copy and explicit nulls at the top
\* level, and differs from E1 and E2 in two top-level tracked fields; E4 is
\* another case whose petitioner is null beside a nested copy; E5 is that
\* case without the petitioner and without a hearing date; E6 has an empty
\* cino and E7 none; E8 carries the number 0 as its case number.
E1 == Entry([cino |-> "K1", case_no |-> "a", date_next_list |-> "d1"], <<>>)
E2 == Entry([cino |-> "K1", case_no |-> "b", date_next_list |-> "d1"], <<>>)
E3 == Entry([cino |-> "K1", case_no |-> NULL, date_next_list |-> NULL],
            <<[case_no |-> "a"]>>)
E4 == Entry([cino |-> "K2", case_no |-> "a", petparty_name |-> NULL],
            <<[case_no |-> "a"]>>)
E5 == Entry([cino |-> "K2", case_no |-> "a"], <<>>)
E6 == Entry([cino |-> "", case_no |-> "a"], <<>>)
E7 == Entry([case_no |-> "a"], <<>>)
E8 == Entry([cino |-> "K1", case_no |-> ZERO, date_next_list |-> "d1"], <<>>)
E9 == Entry([case_no |-> "b"], <<[cino |-> "K1"]>>)

SeqsUpTo(S, n) == UNION {[1..k -> S] : k \in 0..n}

Feed(shape, items, oneline) == [shape |-> shape, items |-> items, oneline |-> oneline]

\* The feeds of the ingest machine: lists of up to MaxBatch records, and
\* one or two feeds of every other shape the parser tells apart.
Feeds ==
    {Feed("list", s, TRUE) : s \in SeqsUpTo({E1, E2, E3, E5}, MaxBatch)}
    \cup {Feed("list", s, TRUE) :
            s \in {<<E6>>, <<E6, E1>>, <<E7, E1>>, <<E4>>, <<E1, E4>>, <<E8>>,
                   <<Item("str_dict", E2), Item("str_other", NotDict)>>,
                   <<Item("str_dict", E2), Item("str_bad", NotDict)>>}}
    \cup {Feed("list", <<E1, NotDict>>, o) : o \in BOOLEAN}
    \cup {Feed("lines", s, FALSE) :
            s \in {<<E1, Item("blank", NotDict), NotDict>>,
                   <<E1, Item("bad", NotDict)>>}}
    \cup {Feed("object", <<E5>>, TRUE), Feed("blank", <<>>, TRUE)}

\* The feeds of the whole machine: lists of records of one case.
CoreFeeds == {Feed("list", s, TRUE) : s \in SeqsUpTo({E1, E2}, MaxBatch) \ {<<>>}}

\* The records handed to create_new_case in the ingest machine.
ManualRecords == {E3, E4, E5}

Notes == {"n1"}

Sides == {"petitioner"}

\* (notes, next_hearing_date, date_of_decision) of a review; None is NULL.
ReviewArgs == {<<"n1", NULL, NULL>>, <<"n2", "d2", "dd">>}

\* ------------------------------------------------------------ the machine
\* The calls that may run side by side, each on a connection of its own.
Procs == {"A", "B"}

\* A call that has not opened its connection.  A connection carries the
\* call (kind, case_data), its place in the function (pc), the row its
\* SELECT fetched (existing: <<>> or <<row>>), whether it holds the write
\* lock of the database file (locked), the tables as its uncommitted
\* transaction leaves them (pending) and what it returned (result).
Idle ==
    [ pc |-> "idle", kind |-> "", case_data |-> NotDict, existing |-> <<>>,
      locked |-> FALSE, pending |-> Db([c \in {} |-> NoKeys], <<>>),
      result |-> NoKeys ]

Init ==
    /\ cases = [c \in {} |-> NoKeys]
    /\ case_history = <<>>
    /\ now = 0
    /\ op = [name |-> "init", cino |-> "", cinos |-> <<>>]
    /\ ret = [ok |-> TRUE]
    /\ conn = [p \in Procs |-> Idle]

Here == Db(cases, case_history)

\* One handler, run to its commit: r is the database it leaves and the value
\* it returns.  The history table holds at most MaxHist rows.
Commit(name, cino, cinos, r) ==
    /\ Len(r.db.hist) <= MaxHist
    /\ cases' = r.db.cases
    /\ case_history' = r.db.hist
    /\ op' = [name |-> name, cino |-> cino, cinos |-> cinos]
    /\ ret' = r.ret
    /\ UNCHANGED <<now, conn>>

process_daily_file(feed) ==
    Commit("process_daily_file", "", <<>>, process_daily_file_on(Here, feed, now))

create_new_case(case_data) ==
    Commit("create_new_case", case_data.d.cino, <<>>,
           create_new_case_on(Here, case_data, now))

update_case_notes(cino, notes) ==
    Commit("update_case_notes", cino, <<>>, update_case_notes_on(Here, cino, notes))

mark_case_as_reviewed(cino) ==
    Commit("mark_case_as_reviewed", cino, <<>>, mark_case_as_reviewed_on(Here, cino, now))

mark_multiple_cases_as_reviewed(cinos) ==
    Commit("mark_multiple_cases_as_reviewed", "", cinos,
           mark_multiple_cases_as_reviewed_on(Here, cinos, now))

remove_from_reviewed_keep_notes(cinos) ==
    Commit("remove_from_reviewed_keep_notes", "", cinos,
           remove_from_reviewed_keep_notes_on(Here, cinos, now))

update_case_user_side(cino, user_side) ==
    Commit("update_case_user_side", cino, <<>>,
           update_case_user_side_on(Here, cino, user_side, now))

update_case_notes_and_mark_reviewed(cino, notes, next_hearing_date, date_of_decision) ==
    Commit("update_case_notes_and_mark_reviewed", cino, <<>>,
           update_case_notes_and_mark_reviewed_on(Here, cino, notes, next_hearing_date,
                                                  date_of_decision, now))

restore_complete_case_state_and_unmark(cino) ==
    \E fetched \in FetchLatestSnapshot(case_history, cino) :
        Commit("restore_complete_case_state_and_unmark", cino, <<>>,
               restore_complete_case_state_and_unmark_on(Here, cino, fetched, now))

restore_all_fields_and_unmark_reviewed(cino) ==
    \E fetched \in FetchLatestSnapshot(case_history, cino) :
        Commit("restore_all_fields_and_unmark_reviewed", cino, <<>>,
               restore_all_fields_and_unmark_reviewed_on(Here, cino, fetched, now))

\* A second passes between two requests.
Tick ==
    /\ now < MaxTime
    /\ now' = now + 1
    /\ UNCHANGED <<cases, case_history, op, ret, conn>>

\* The whole machine: every operation that writes is_changed, on one case.
Next ==
    \/ \E feed \in CoreFeeds : process_daily_file(feed)
    \/ create_new_case(E1)
    \/ \E n \in Notes : update_case_notes("K1", n)
    \/ mark_case_as_reviewed("K1")
    \/ mark_multiple_cases_as_reviewed(<<"K1">>)
    \/ remove_from_reviewed_keep_notes(<<"K1">>)
    \/ \E u \in Sides : update_case_user_side("K1", u)
    \/ \E a \in ReviewArgs : update_case_notes_and_mark_reviewed("K1", a[1], a[2], a[3])
    \/ restore_complete_case_state_and_unmark("K1")
    \/ restore_all_fields_and_unmark_reviewed("K1")
    \/ Tick

Spec == Init /\ [][Next]_vars

\* The ingest machine: feeds of every shape over two cases, and the manual
\* operations that set up the rows an ingest meets.
NextIngest ==
    \/ \E feed \in Feeds : process_daily_file(feed)
    \/ \E e \in ManualRecords : create_new_case(e)
    \/ \E n \in Notes : update_case_notes("K1", n)
    \/ mark_case_as_reviewed("K1")
    \/ Tick

SpecIngest == Init /\ [][NextIngest]_vars

\* The review machine: snapshot reviews and the two snapshot restorations.
NextReview ==
    \/ \E feed \in CoreFeeds : process_daily_file(feed)
    \/ \E c \in Cinos, a \in ReviewArgs :
          update_case_notes_and_mark_reviewed(c, a[1], a[2], a[3])
    \/ \E c \in Cinos : restore_complete_case_state_and_unmark(c)
    \/ \E c \in Cinos : restore_all_fields_and_unmark_reviewed(c)
    \/ Tick

SpecReview == Init /\ [][NextReview]_vars

\* ================================================================ claims
\* What the claims say of an ingest is said of process_daily_file applied, in
\* the state at hand, to any feed: Ingest is its outcome, DataList the batch
\* it parsed, LoopTrace the states of its loop after 0, 1, ... entries.
Ingest(feed) == process_daily_file_on(Here, feed, now)

DataList(feed) == parse_feed(feed).data_list

LoopTrace(data_list) ==
    [n \in 0..Len(data_list) |-> process_entries(Here, data_list, n, now)]

Counted(r) == "error" \notin DOMAIN r.ret

\* A batch entry that is a dictionary carrying a non-empty cino.
ValidEntry(e) == e.t = "dict" /\ "cino" \in DOMAIN e.d /\ e.d.cino \notin {NULL, ""}

CountValid(data_list) ==
    Cardinality({i \in 1..Len(data_list) : ValidEntry(data_list[i])})

\* The entries of a batch that name the case c.
EntriesFor(data_list, c) ==
    {n \in 1..Len(data_list) : ValidEntry(data_list[n]) /\ data_list[n].d.cino = c}

\* The history rows of one case, in order.
HistoryOf(h, c) == SelectSeq(h, LAMBDA x : x.cino = c)

\* C1: whenever process_daily_file returns counts, new + updated + unchanged
\* is the number of batch entries that are dictionaries with a non-empty
\* cino; every other entry leaves the store and the counters as they were.
C1_CountsSumToValidEntries ==
    \A feed \in Feeds :
        LET r == Ingest(feed)
            dl == DataList(feed)
            tr == LoopTrace(dl)
        IN  Counted(r) =>
              /\ r.ret.new + r.ret.updated + r.ret.unchanged = CountValid(dl)
              /\ \A n \in 1..Len(dl) :
                    ~ValidEntry(dl[n]) =>
                        /\ tr[n].db = tr[n - 1].db
                        /\ tr[n].stats = tr[n - 1].stats

\* An ingest returned counts of zero over a store that holds a case: every
\* entry of its batch was skipped.
C1_Witness ==
    /\ op.name = "process_daily_file"
    /\ ret = ZeroStats
    /\ cases /= <<>>

\* C2 (as claimed): ingesting a batch and then the identical batch again
\* returns updated = 0 on the second pass, counts every cino-carrying entry
\* as unchanged, and the second pass changes neither table.
C2_SecondPassUnchanged ==
    \A feed \in Feeds :
        LET r == Ingest(feed)
            again == process_daily_file_on(r.db, feed, now)
        IN  Counted(r) =>
              /\ again.ret.updated = 0
              /\ again.ret.unchanged = CountValid(DataList(feed))
              /\ again.db = r.db

\* C4 (as claimed): after an ingest, a case of the batch that was in the
\* store before has is_changed true iff this ingest detected a delta for it.
C4_FlagIffDetected ==
    \A feed \in Feeds :
        LET r == Ingest(feed)
            dl == DataList(feed)
            tr == LoopTrace(dl)
        IN  \A c \in DOMAIN cases :
              Counted(r) /\ EntriesFor(dl, c) /= {} =>
                 (r.db.cases[c].is_changed
                    <=> \E n \in EntriesFor(dl, c) : tr[n].seen = "updated")

\* C4 (amended): such a case has is_changed true if this ingest detected a
\* delta for it, and keeps the value it had before the ingest if none was.
C4_FlagSetOrKept ==
    \A feed \in Feeds :
        LET r == Ingest(feed)
            dl == DataList(feed)
            tr == LoopTrace(dl)
        IN  \A c \in DOMAIN cases :
              Counted(r) /\ EntriesFor(dl, c) /= {} =>
                 r.db.cases[c].is_changed =
                    (IF \E n \in EntriesFor(dl, c) : tr[n].seen = "updated"
                     THEN TRUE ELSE cases[c].is_changed)

\* An ingest found the only case of the store unchanged and the case is
\* still pending review.
C4_Witness ==
    /\ op.name = "process_daily_file"
    /\ ret = [new |-> 0, updated |-> 0, unchanged |-> 1]
    /\ DOMAIN cases = {"K1"}
    /\ cases["K1"].is_changed

\* ----------------------------------------------------------------- C3
\* The operations that acknowledge a case, and those that return it to review.
MarkOps ==
    {"mark_case_as_reviewed", "mark_multiple_cases_as_reviewed",
     "update_case_notes_and_mark_reviewed"}

UnreviewOps ==
    {"remove_from_reviewed_keep_notes", "restore_complete_case_state_and_unmark",
     "restore_all_fields_and_unmark_reviewed"}

\* A history row that logs a delta of an ingest / a review of a case.
IsDeltaRow(x) == x.field_name \in TrackedSet

IsReviewRow(x) ==
    x.field_name \in {"marked_reviewed", "bulk_marked_reviewed",
                      "complete_state_before_review"}

\* C3 (as claimed): in every reachable state a case has is_changed true iff
\* an ingest detected a tracked-field change for it and no mark-reviewed
\* operation has been applied to it since (the history logs both events).
C3_FlagIffDeltaSinceReview ==
    \A c \in DOMAIN cases :
        cases[c].is_changed <=>
            \E i \in 1..Len(case_history) :
                /\ case_history[i].cino = c
                /\ IsDeltaRow(case_history[i])
                /\ \A j \in (i + 1)..Len(case_history) :
                      ~(case_history[j].cino = c /\ IsReviewRow(case_history[j]))

\* C3 (amended): every operation writes the flag of a case by one rule: an
\* ingest leaves it true iff it was true or the ingest logged a delta for
\* the case (so a case the ingest inserted is unflagged unless a later entry
\* of the same batch differs); a mark-reviewed operation addressed to the
\* case leaves it false; an un-review operation addressed to it leaves it
\* true; every other operation, manual creation of another case and manual
\* edits included, leaves it as it was, and a created case starts unflagged.
C3_FlagTransitions ==
    [][ now' = now =>
          \A c \in DOMAIN cases' :
             LET was == c \in DOMAIN cases /\ cases[c].is_changed
                 addressed == \/ op'.cino = c
                              \/ \E i \in 1..Len(op'.cinos) : op'.cinos[i] = c
                 detected == \E i \in (Len(case_history) + 1)..Len(case_history') :
                                /\ case_history'[i].cino = c
                                /\ IsDeltaRow(case_history'[i])
             IN  cases'[c].is_changed =
                    CASE op'.name = "process_daily_file" -> was \/ detected
                      [] op'.name \in MarkOps /\ addressed -> FALSE
                      [] op'.name \in UnreviewOps /\ addressed -> TRUE
                      [] OTHER -> was ]_vars

\* An un-review has flagged a case for which no ingest ever logged a delta.
C3_Witness ==
    /\ op.name = "remove_from_reviewed_keep_notes"
    /\ "K1" \in DOMAIN cases
    /\ cases["K1"].is_changed
    /\ \A i \in 1..Len(case_history) : ~IsDeltaRow(case_history[i])

\* ----------------------------------------------------------------- C5
\* C5 (as claimed): an ingested record whose cino is not in the store is
\* classified new and inserted with is_changed false, nothing else of the
\* store changing; create_new_case of such a record succeeds and inserts it
\* with is_changed false.
C5_NewRecordNotFlagged ==
    /\ \A feed \in Feeds :
          LET dl == DataList(feed)
              tr == LoopTrace(dl)
          IN  \A n \in 1..Len(dl) :
                 /\ tr[n - 1].seen /= "raised"
                 /\ ValidEntry(dl[n])
                 /\ dl[n].d.cino \notin DOMAIN tr[n - 1].db.cases
                 => /\ tr[n].seen = "new"
                    /\ tr[n].stats = [tr[n - 1].stats EXCEPT !.new = @ + 1]
                    /\ DOMAIN tr[n].db.cases =
                          DOMAIN tr[n - 1].db.cases \cup {dl[n].d.cino}
                    /\ tr[n].db.cases[dl[n].d.cino].is_changed = FALSE
                    /\ \A k \in DOMAIN tr[n - 1].db.cases :
                          tr[n].db.cases[k] = tr[n - 1].db.cases[k]
                    /\ tr[n].db.hist = tr[n - 1].db.hist
    /\ \A e \in ManualRecords :
          e.d.cino \notin DOMAIN cases =>
             LET r == create_new_case_on(Here, e, now)
             IN  /\ r.ret.ok
                 /\ e.d.cino \in DOMAIN r.db.cases
                 /\ r.db.cases[e.d.cino].is_changed = FALSE

\* ----------------------------------------------------------------- C6
\* Null or absent as the empty string, anything else as its text.
Norm(v) == IF v = NULL THEN "" ELSE Str(v)

\* C6 (as claimed): an ingested record whose cino is in the store and whose
\* delta list is not empty is classified updated; every tracked column then
\* holds the incoming record's value, null or absent as the empty string;
\* is_changed is true; the change summary has one entry per delta in delta
\* order; and one history row per delta is appended with the delta's field,
\* old value and new value.
C6_UpdateWritesIncoming ==
    \A feed \in Feeds :
        LET dl == DataList(feed)
            tr == LoopTrace(dl)
        IN  \A n \in 1..Len(dl) :
               LET e == dl[n]
                   c == e.d.cino
                   before == tr[n - 1].db
                   after == tr[n].db
                   deltas == detect_changes(before.cases[c], e.d)
               IN  /\ tr[n - 1].seen /= "raised"
                   /\ ValidEntry(e)
                   /\ c \in DOMAIN before.cases
                   /\ deltas /= <<>>
                   => /\ tr[n].seen = "updated"
                      /\ tr[n].stats = [tr[n - 1].stats EXCEPT !.updated = @ + 1]
                      /\ \A f \in TrackedSet :
                            Norm(after.cases[c][f]) = Norm(Get(e.d, f, NULL))
                      /\ after.cases[c].is_changed
                      /\ after.cases[c].change_summary =
                            [i \in 1..Len(deltas) |->
                                <<deltas[i].field, deltas[i].old_value,
                                  deltas[i].new_value>>]
                      /\ after.hist = before.hist \o
                            [i \in 1..Len(deltas) |->
                                HistRow(c, deltas[i].field, deltas[i].old_value,
                                        deltas[i].new_value, now)]

Probes ==
    {E1.d, E2.d, E3.d, E5.d, E8.d,
     [cino |-> "K1", case_no |-> "b", disp_name |-> "", user_notes |-> "x",
      user_side |-> "respondent", reg_no |-> "7", reg_year |-> "2024",
      date_of_decision |-> "dd"]}

\* The place of a tracked field in the fixed order.
Pos(f) == CHOOSE i \in 1..Len(Tracked) : Tracked[i] = f

\* C8 (as claimed): for every stored row and incoming record, the deltas
\* are exactly the tracked fields whose stored and incoming values differ
\* once null or absent is taken as the empty string, in the tracked order,
\* each with the normalised stored value as old_value and the normalised
\* incoming value as new_value; no other field appears.
C8_DeltasExact ==
    \A c \in DOMAIN cases, d \in Probes :
        LET row == cases[c]
            ch == detect_changes(row, d)
        IN  /\ \A i \in 1..Len(ch) :
                  /\ ch[i].field \in TrackedSet
                  /\ ch[i].old_value = Norm(row[ch[i].field])
                  /\ ch[i].new_value = Norm(Get(d, ch[i].field, NULL))
                  /\ ch[i].old_value /= ch[i].new_value
            /\ \A f \in TrackedSet :
                  Norm(row[f]) /= Norm(Get(d, f, NULL)) =>
                     \E i \in 1..Len(ch) : ch[i].field = f
            /\ \A i, j \in 1..Len(ch) : i < j => Pos(ch[i].field) < Pos(ch[j].field)

\* ------------------------------------------------------------ C9, C10
\* The columns a snapshot holds.
SnapshotCols ==
    TrackedSet \cup {"user_notes", "user_side", "reg_no", "reg_year", "date_of_decision"}

\* Two column values that differ at most as NULL differs from ''.
SameValue(v, w) == OrEmpty(v) = OrEmpty(w)

\* C9 (as claimed): for an existing case, update_case_notes_and_mark_reviewed
\* followed at once by restore_complete_case_state_and_unmark leaves every
\* snapshotted column at its value before the review (NULL and '' taken as
\* one value) and is_changed true, whichever row the restoration fetches.
C9_RoundTrip ==
    \A c \in DOMAIN cases, a \in ReviewArgs :
        LET reviewed == update_case_notes_and_mark_reviewed_on(Here, c, a[1], a[2], a[3], now)
        IN  \A fetched \in FetchLatestSnapshot(reviewed.db.hist, c) :
               LET restored == restore_complete_case_state_and_unmark_on(
                                   reviewed.db, c, fetched, now)
               IN  /\ \A f \in SnapshotCols :
                         SameValue(restored.db.cases[c][f], cases[c][f])
                   /\ restored.db.cases[c].is_changed

\* C10 (as claimed): restore_complete_case_state_and_unmark of an existing
\* case sets its columns to the snapshot written by the most recent review
\* of the case if there is one (NULL and '' taken as one value), else
\* clears user_notes, user_side and date_of_decision and leaves the other
\* columns as they were; is_changed is true afterwards.
C10_RestoresLatestSnapshot ==
    \A c \in DOMAIN cases :
        \A fetched \in FetchLatestSnapshot(case_history, c) :
            LET restored == restore_complete_case_state_and_unmark_on(Here, c, fetched, now)
                row == restored.db.cases[c]
                S == Snapshots(case_history, c)
                last == CHOOSE i \in S : \A j \in S : j <= i
            IN  /\ row.is_changed
                /\ IF S /= {}
                   THEN \A f \in SnapshotCols :
                           SameValue(row[f], case_history[last].old_value[f])
                   ELSE /\ row.user_notes = ""
                        /\ row.user_side = ""
                        /\ row.date_of_decision = NULL
                        /\ \A f \in DOMAIN row \ {"user_notes", "user_side",
                                                   "date_of_decision", "is_changed",
                                                   "updated_at"} :
                              row[f] = cases[c][f]

\* ---------------------------------------------------------------- C11
\* Lists of cinos handed to the bulk operations.
CinoLists == SeqsUpTo(Cinos, MaxBatch) \ {<<>>}

\* The row `after` is the row `before` except in the columns `cols`.
SameExcept(after, before, cols) ==
    /\ DOMAIN after = DOMAIN before
    /\ \A f \in DOMAIN before \ cols : after[f] = before[f]

\* The number of places of a list that hold c.
Occurrences(cinos, c) == Cardinality({i \in 1..Len(cinos) : cinos[i] = c})

\* C11: mark_case_as_reviewed of a stored cino clears is_changed, appends
\* exactly one review-tagged history row for it, and changes no other column
\* than updated_at and no other row; mark_multiple_cases_as_reviewed does
\* the same for every listed cino that is stored, one history row per place
\* of the list, and returns the number of places that name a stored cino.
C11_MarkReviewed ==
    /\ \A c \in DOMAIN cases :
          LET r == mark_case_as_reviewed_on(Here, c, now)
          IN  /\ r.ret.ok
              /\ DOMAIN r.db.cases = DOMAIN cases
              /\ r.db.cases[c].is_changed = FALSE
              /\ SameExcept(r.db.cases[c], cases[c], {"is_changed", "updated_at"})
              /\ \A k \in DOMAIN cases \ {c} : r.db.cases[k] = cases[k]
              /\ Len(r.db.hist) = Len(case_history) + 1
              /\ SubSeq(r.db.hist, 1, Len(case_history)) = case_history
              /\ r.db.hist[Len(r.db.hist)].cino = c
              /\ IsReviewRow(r.db.hist[Len(r.db.hist)])
    /\ \A cinos \in CinoLists :
          LET r == mark_multiple_cases_as_reviewed_on(Here, cinos, now)
              added == SubSeq(r.db.hist, Len(case_history) + 1, Len(r.db.hist))
          IN  /\ r.ret.count = Cardinality({i \in 1..Len(cinos) : cinos[i] \in DOMAIN cases})
              /\ DOMAIN r.db.cases = DOMAIN cases
              /\ SubSeq(r.db.hist, 1, Len(case_history)) = case_history
              /\ \A i \in 1..Len(added) : IsReviewRow(added[i])
              /\ \A c \in DOMAIN cases :
                    IF Occurrences(cinos, c) > 0
                    THEN /\ r.db.cases[c].is_changed = FALSE
                         /\ SameExcept(r.db.cases[c], cases[c],
                                       {"is_changed", "updated_at"})
                         /\ Len(HistoryOf(added, c)) = Occurrences(cinos, c)
                    ELSE /\ r.db.cases[c] = cases[c]
                         /\ HistoryOf(added, c) = <<>>

\* A bulk review has just cleared the flag of a stored case and counted it.
C11_Witness ==
    /\ op.name = "mark_multiple_cases_as_reviewed"
    /\ ret = [count |-> 1]
    /\ "K1" \in DOMAIN cases
    /\ ~cases["K1"].is_changed
    /\ case_history /= <<>>
    /\ case_history[Len(case_history)].field_name = "bulk_marked_reviewed"

\* ======================================================== manual edits
\* update_case_notes with other_updates: UPDATE cases SET user_notes = ?,
\* <key> = ? ... WHERE cino = ?, one assignment per key of other_updates,
\* the keys taken as column names as they come.  A key "cino" rewrites the
\* cino of the row, and the UNIQUE constraint of the column raises when
\* another row holds the new value.  No history row, updated_at kept.
update_case_notes_with_on(db, cino, notes, other_updates) ==
    IF other_updates = NoKeys
    THEN [db |-> update_case_notes_on(db, cino, notes).db, raised |-> FALSE]
    ELSE IF cino \notin DOMAIN db.cases
    THEN [db |-> db, raised |-> FALSE]
    ELSE LET key == Get(other_updates, "cino", cino)
             cols == [f \in DOMAIN other_updates \ {"cino"} |-> other_updates[f]]
             row == cols @@ [user_notes |-> notes] @@ db.cases[cino]
         IN  IF key /= cino /\ key \in DOMAIN db.cases
             THEN [db |-> db, raised |-> TRUE]
             ELSE [db |-> Db([k \in (DOMAIN db.cases \ {cino}) \cup {key} |->
                                 IF k = key THEN row ELSE db.cases[k]], db.hist),
                   raised |-> FALSE]

\* The loop of save_all over the first n updates of the request: the notes
\* and fields of each update are written, then its cino is marked reviewed.
\* Every call commits by itself, so an exception keeps what was saved before.
RECURSIVE save_all_loop(_, _, _, _)
save_all_loop(db, updates, n, t) ==
    IF n = 0 THEN [db |-> db, success_count |-> 0, raised |-> FALSE]
    ELSE LET before == save_all_loop(db, updates, n - 1, t)
             u == updates[n]
             noted == update_case_notes_with_on(before.db, u.cino, u.notes, u.fields)
         IN  IF before.raised THEN before
             ELSE IF noted.raised THEN [before EXCEPT !.raised = TRUE]
             ELSE [db |-> mark_case_as_reviewed_on(noted.db, u.cino, t).db,
                   success_count |-> before.success_count + 1,
                   raised |-> FALSE]

\* The /save_all request.
save_all_on(db, updates, t) ==
    LET st == save_all_loop(db, updates, Len(updates), t)
    IN  [db |-> st.db,
         ret |-> IF st.raised THEN [error |-> "Save all failed"]
                 ELSE [saved |-> st.success_count]]

\* One element of the updates of a /save_all request.
Update(cino, notes, fields) == [cino |-> cino, notes |-> notes, fields |-> fields]

\* The requests of /save_all: notes alone, notes with a column, and notes
\* with a "cino" among the fields.
SaveAllRequests ==
    { <<Update("K1", "n1", NoKeys)>>,
      <<Update("K1", "n1", [user_side |-> "petitioner"])>>,
      <<Update("K1", "n1", [cino |-> "K2"])>>,
      <<Update("K2", "n1", [cino |-> "K2", user_side |-> "petitioner"])>>,
      <<Update("K2", "n1", NoKeys), Update("K1", "n1", [cino |-> "K2"])>> }

save_all(updates) ==
    Commit("save_all", "", <<>>, save_all_on(Here, updates, now))

\* ------------------------------------------------------- hearing date
\* The characters of the texts submitted as hearing dates.
Chars ==
    ("2024-01-10" :> <<"2", "0", "2", "4", "-", "0", "1", "-", "1", "0">>) @@
    ("2024-1-5"   :> <<"2", "0", "2", "4", "-", "1", "-", "5">>) @@
    ("2023-02-29" :> <<"2", "0", "2", "3", "-", "0", "2", "-", "2", "9">>) @@
    ("10/01/2024" :> <<"1", "0", "/", "0", "1", "/", "2", "0", "2", "4">>) @@
    ("tomorrow"   :> <<"t", "o", "m", "o", "r", "r", "o", "w">>)

DigitValue ==
    ("0" :> 0) @@ ("1" :> 1) @@ ("2" :> 2) @@ ("3" :> 3) @@ ("4" :> 4) @@
    ("5" :> 5) @@ ("6" :> 6) @@ ("7" :> 7) @@ ("8" :> 8) @@ ("9" :> 9)

IsDigits(cs) == cs /= <<>> /\ \A i \in 1..Len(cs) : cs[i] \in DOMAIN DigitValue

RECURSIVE Number(_)
Number(cs) ==
    IF cs = <<>> THEN 0
    ELSE 10 * Number(SubSeq(cs, 1, Len(cs) - 1)) + DigitValue[cs[Len(cs)]]

DaysIn(y, m) ==
    IF m = 2
    THEN IF (y % 4 = 0 /\ y % 100 /= 0) \/ y % 400 = 0 THEN 29 ELSE 28
    ELSE IF m \in {4, 6, 9, 11} THEN 30 ELSE 31

\* datetime.strptime(text, '%Y-%m-%d') returns (TRUE) or raises ValueError
\* (FALSE): %Y is four digits, %m and %d one or two digits (%d also a space
\* and a digit), joined by '-', and the three numbers are a calendar date.
strptime_ymd(cs) ==
    \E i, j \in 1..Len(cs) :
        /\ i < j
        /\ {k \in 1..Len(cs) : cs[k] = "-"} = {i, j}
        /\ LET y == SubSeq(cs, 1, i - 1)
               m == SubSeq(cs, i + 1, j - 1)
               d == SubSeq(cs, j + 1, Len(cs))
               dd == IF d /= <<>> /\ Head(d) = " " THEN Tail(d) ELSE d
           IN  /\ Len(y) = 4 /\ IsDigits(y) /\ Number(y) >= 1
               /\ Len(m) \in {1, 2} /\ IsDigits(m) /\ Number(m) \in 1..12
               /\ Len(d) \in {1, 2} /\ IsDigits(dd)
               /\ Number(dd) \in 1..DaysIn(Number(y), Number(m))

\* A hearing-date update that rewrites the case's earlier hearing-date row
\* in place and appends only when there is none.
update_case_hearing_date_rewriting(db, cino, hearing_date, t) ==
    LET cs == update_where(db.cases, cino,
                           [date_next_list |-> hearing_date, updated_at |-> t])
        row == HistRow(cino, "hearing_date_updated", "", hearing_date, t)
        earlier == {i \in 1..Len(db.hist) : /\ db.hist[i].cino = cino
                                            /\ db.hist[i].field_name = row.field_name}
        h  == IF earlier = {} THEN Append(db.hist, row)
              ELSE [i \in 1..Len(db.hist) |-> IF i \in earlier THEN row ELSE db.hist[i]]
    IN  [db |-> Db(cs, h), ret |-> [ok |-> TRUE]]

\* update_case_hearing_date: the UPDATE of date_next_list and the history
\* row; rowcount is read after the INSERT of the history row.
update_case_hearing_date_on(db, cino, hearing_date, t) ==
    LET cs == update_where(db.cases, cino,
                           [date_next_list |-> hearing_date, updated_at |-> t])
        h  == Append(db.hist, HistRow(cino, "hearing_date_updated", "", hearing_date, t))
        rowcount == 1
    IN  [db |-> Db(cs, h), ret |-> [ok |-> rowcount > 0]]

\* The /case/<cino>/update_hearing_date request: a truthy hearing_date is
\* parsed and refused when it does not parse; a falsy one is not parsed.
update_hearing_date_on(db, cino, hearing_date, t) ==
    IF Truthy(hearing_date) /\ ~strptime_ymd(Chars[hearing_date])
    THEN [db |-> db, ret |-> [error |-> "Invalid date format. Use YYYY-MM-DD"]]
    ELSE LET r == update_case_hearing_date_on(db, cino, hearing_date, t)
         IN  [db |-> r.db,
              ret |-> IF r.ret.ok THEN [hearing_date |-> OrNone(hearing_date)]
                      ELSE [error |-> "Failed to update hearing date"]]

\* The hearing_date values of the requests; None is NULL.
HearingDates == DOMAIN Chars \cup {"", NULL}

update_hearing_date(cino, hearing_date) ==
    Commit("update_hearing_date", cino, <<>>,
           update_hearing_date_on(Here, cino, hearing_date, now))

\* ------------------------------------------------------- field update
\* A list of updatable columns that also lets case_no through.
valid_fields_with_case_no ==
    { "petparty_name", "resparty_name", "purpose_name", "type_name",
      "court_no_desg_name", "user_side", "date_of_decision", "case_no" }

valid_fields ==
    { "petparty_name", "resparty_name", "purpose_name", "type_name",
      "court_no_desg_name", "user_side", "date_of_decision" }

\* Texts that str.strip() leaves empty.
BlankTexts == {"", "  "}

\* update_case_field: a name outside valid_fields returns False before any
\* statement; a blank date_of_decision is stored as NULL, and one that is
\* None raises on .strip(), which is reported as False.
update_case_field_on(db, cino, field_name, field_value, t) ==
    IF field_name \notin valid_fields
    THEN [db |-> db, ret |-> [ok |-> FALSE]]
    ELSE IF field_name = "date_of_decision" /\ field_value = NULL
    THEN [db |-> db, ret |-> [ok |-> FALSE]]
    ELSE LET v == IF field_name = "date_of_decision" /\ field_value \in BlankTexts
                  THEN NULL ELSE field_value
             cs == update_where(db.cases, cino,
                                (field_name :> v) @@ [updated_at |-> t])
             h  == Append(db.hist,
                          HistRow(cino, field_name \o "_updated", "", OrEmpty(v), t))
             rowcount == 1
         IN  [db |-> Db(cs, h), ret |-> [ok |-> rowcount > 0]]

\* The field names and values of the requests.
FieldNames == {"petparty_name", "date_of_decision", "cino", "is_changed", "case_no"}

FieldValues == {"q", "  ", NULL}

update_case_field(cino, field_name, field_value) ==
    Commit("update_case_field", cino, <<>>,
           update_case_field_on(Here, cino, field_name, field_value, now))

\* --------------------------------------------------------- bulk wipe
\* backup_data_before_clear: the path of the copy, or None when the copy
\* raised; the exception is caught inside and never reaches the caller.
backup_data_before_clear(copied) ==
    IF copied THEN "data/backup_cases.db" ELSE NULL

\* delete_all_cases_permanently: both tables emptied, the counts returned.
delete_all_cases_permanently_on(db) ==
    [db |-> Db([c \in {} |-> NoKeys], <<>>),
     ret |-> [cases_deleted |-> Cardinality(DOMAIN db.cases),
              history_deleted |-> Len(db.hist)]]

clear_all_data_on(db) == delete_all_cases_permanently_on(db)

\* The /delete_all_cases_and_calendar request.
delete_all_cases_and_calendar_on(db, confirmation, copied) ==
    IF confirmation /= "DELETE_ALL_FOREVER"
    THEN [db |-> db, ret |-> [error |-> "Invalid confirmation"]]
    ELSE LET backup_path == backup_data_before_clear(copied)
             db_result == delete_all_cases_permanently_on(db)
         IN  [db |-> db_result.db,
              ret |-> db_result.ret @@ [backup_path |-> backup_path]]

\* The /clear_local_data request.
clear_local_data_on(db, copied) ==
    LET backup_path == backup_data_before_clear(copied)
        db_result == clear_all_data_on(db)
    IN  [db |-> db_result.db, ret |-> db_result.ret @@ [backup_path |-> backup_path]]

\* complete_system_cleanup, behind /complete_system_cleanup.
complete_system_cleanup_on(db, copied) ==
    LET backup_path == backup_data_before_clear(copied)
        db_result == clear_all_data_on(db)
    IN  [db |-> db_result.db, ret |-> db_result.ret @@ [backup_created |-> backup_path]]

Confirmations == {"DELETE_ALL_FOREVER", ""}

delete_all_cases_and_calendar(confirmation, copied) ==
    Commit("delete_all_cases_and_calendar", "", <<>>,
           delete_all_cases_and_calendar_on(Here, confirmation, copied))

clear_local_data(copied) ==
    Commit("clear_local_data", "", <<>>, clear_local_data_on(Here, copied))

complete_system_cleanup(copied) ==
    Commit("complete_system_cleanup", "", <<>>, complete_system_cleanup_on(Here, copied))

\* The names of the requests that empty the tables.
WipeOps == {"delete_all_cases_and_calendar", "clear_local_data", "complete_system_cleanup"}

\* The feeds of the administration machine: one case, and two cases.
AdminFeeds == {Feed("list", <<E1>>, TRUE), Feed("list", <<E1, E5>>, TRUE)}

\* The administration machine: ingest, manual creation and edits, bulk
\* review, and the three requests that empty the tables.
NextAdmin ==
    \/ \E feed \in AdminFeeds : process_daily_file(feed)
    \/ create_new_case(E5)
    \/ \E updates \in SaveAllRequests : save_all(updates)
    \/ \E d \in HearingDates : update_hearing_date("K1", d)
    \/ \E f \in FieldNames, v \in FieldValues : update_case_field("K1", f, v)
    \/ mark_multiple_cases_as_reviewed(<<"K1">>)
    \/ \E confirmation \in Confirmations, copied \in BOOLEAN :
          delete_all_cases_and_calendar(confirmation, copied)
    \/ \E copied \in BOOLEAN : clear_local_data(copied)
    \/ \E copied \in BOOLEAN : complete_system_cleanup(copied)
    \/ Tick

SpecAdmin == Init /\ [][NextAdmin]_vars

\* ---------------------------------------------------------------- C12
\* C12: the table is keyed by cino, so no two records share one; and no
\* request other than a bulk wipe changes or removes the cino of a stored
\* record: every cino stored before an ingest, manual edit, save_all,
\* review or un-review is stored after it.
C12_CinoImmutable ==
    [][op'.name \notin WipeOps => DOMAIN cases \subseteq DOMAIN cases']_vars

\* ---------------------------------------------------------------- C13
\* C13: the history is append-only: a request other than a bulk wipe
\* leaves every history row it found in place and unaltered, and only adds
\* rows after them.
C13_HistoryAppendOnly ==
    [][op'.name \notin WipeOps =>
          /\ Len(case_history') >= Len(case_history)
          /\ SubSeq(case_history', 1, Len(case_history)) = case_history]_vars

\* A field update has just added a row behind a row of another request.
C13_Witness ==
    /\ op.name = "update_case_field"
    /\ Len(case_history) = 2
    /\ case_history[1].field_name = "hearing_date_updated"
    /\ case_history[2].field_name = "petparty_name_updated"

\* ---------------------------------------------------------------- C14
\* The outcomes of the three wipe requests, confirmed, in the state at hand.
WipeOutcomes(copied) ==
    { delete_all_cases_and_calendar_on(Here, "DELETE_ALL_FOREVER", copied),
      clear_local_data_on(Here, copied),
      complete_system_cleanup_on(Here, copied) }

\* C14: a bulk wipe comes after a successful backup in the same request:
\* when the backup step fails, no case row and no history row is deleted.
C14_NoWipeWithoutBackup ==
    \A r \in WipeOutcomes(FALSE) : r.db = Here

\* ---------------------------------------------------------------- C15
\* C15: process_daily_file never raises: for a feed of any shape (blank,
\* not JSON, JSON of the wrong shape, a batch whose write fails) it returns
\* either exactly the counts new, updated and unchanged, or a result that
\* carries a non-empty error string; and whenever it returns an error both
\* tables are as they were.
C15_CountsOrError ==
    \A feed \in Feeds :
        LET r == Ingest(feed)
        IN  /\ \/ /\ DOMAIN r.ret = {"new", "updated", "unchanged"}
                  /\ \A k \in DOMAIN r.ret : r.ret[k] \in Nat
               \/ /\ DOMAIN r.ret = {"error"}
                  /\ r.ret.error /= ""
            /\ "error" \in DOMAIN r.ret => r.db = Here

\* An ingest has just refused a feed that does not parse, with a case stored.
C15_Witness ==
    /\ op.name = "process_daily_file"
    /\ ret = [error |-> "Invalid JSON format"]
    /\ DOMAIN cases /= {}

\* ---------------------------------------------------------------- C16
\* The records handed to a manual creation.
CreateProbes == {E1, E2, E3, E4, E5, E8, E9}

\* C16: create_new_case of a record whose cino is stored returns failure
\* and leaves the case table and the history exactly as they were.
C16_DuplicateRefused ==
    \A e \in CreateProbes :
        get_field_value("cino", e) \in DOMAIN cases =>
            LET r == create_new_case_on(Here, e, now)
            IN  /\ r.ret.ok = FALSE
                /\ r.db = Here

\* A manual creation of a stored cino has just been refused.
C16_Witness ==
    /\ op.name = "create_new_case"
    /\ op.cino \in DOMAIN cases
    /\ ret = [ok |-> FALSE]

\* ---------------------------------------------------------------- C17
\* A text of the form YYYY-MM-DD, four, two and two digits, naming a
\* calendar date.
IsIsoDate(v) ==
    /\ v \in DOMAIN Chars
    /\ Len(Chars[v]) = 10
    /\ Chars[v][5] = "-" /\ Chars[v][8] = "-"
    /\ strptime_ymd(Chars[v])

\* C17: the update-hearing-date request sets date_next_list only to a valid
\* YYYY-MM-DD date string: any other submitted value, the empty string
\* included, is rejected and leaves the record and the history unchanged.
C17_OnlyIsoDatesAccepted ==
    \A c \in DOMAIN cases, d \in HearingDates :
        LET r == update_hearing_date_on(Here, c, d, now)
        IN  IF IsIsoDate(d)
            THEN r.db.cases[c].date_next_list = d
            ELSE /\ "error" \in DOMAIN r.ret
                 /\ r.db = Here

\* ---------------------------------------------------------------- C18
\* The columns the field update is documented to accept.
Whitelist ==
    { "petparty_name", "resparty_name", "purpose_name", "type_name",
      "court_no_desg_name", "user_side", "date_of_decision" }

\* C18: update_case_field with a field name outside the whitelist returns
\* failure and leaves the case table and the history unchanged; with a
\* whitelisted name it changes only that column and updated_at of the
\* addressed record, and no other record.
C18_FieldWhitelist ==
    \A c \in Cinos, f \in Whitelist \cup FieldNames, v \in FieldValues :
        LET r == update_case_field_on(Here, c, f, v, now)
        IN  IF f \notin Whitelist
            THEN /\ r.ret.ok = FALSE
                 /\ r.db = Here
            ELSE /\ DOMAIN r.db.cases = DOMAIN cases
                 /\ \A k \in DOMAIN cases \ {c} : r.db.cases[k] = cases[k]
                 /\ c \in DOMAIN cases =>
                       /\ SameExcept(r.db.cases[c], cases[c], {f, "updated_at"})
                       /\ r.ret.ok => r.db.cases[c][f] = IF v = "q" THEN "q" ELSE
                                          IF f = "date_of_decision" THEN NULL ELSE v

\* A field update has just written a whitelisted column of a stored case.
C18_Witness ==
    /\ op.name = "update_case_field"
    /\ ret = [ok |-> TRUE]
    /\ op.cino \in DOMAIN cases
    /\ cases[op.cino].petparty_name = "q"
    /\ cases[op.cino].updated_at = now

\* ---------------------------------------------------------------- C19
\* Incoming records that carry a nested raw_data copy.
NestedProbes == {E3, E4, E9}

\* C19: when the top-level value of a tracked field of an incoming record
\* is empty or absent and the nested raw_data copy carries a value for it,
\* the detector compares the nested value: no delta is emitted for the
\* field when the nested value equals the stored one.
C19_DetectorUsesNested ==
    \A c \in DOMAIN cases, e \in NestedProbes, f \in TrackedSet :
        LET deltas == detect_changes(cases[c], e.d)
            nested == Get(e.raw[1], f, "")
        IN  ( /\ ~Truthy(Get(e.d, f, ""))
              /\ Truthy(nested)
              /\ Str(nested) = cases[c][f] )
            => \A i \in 1..Len(deltas) : deltas[i].field /= f

\* ---------------------------------------------------------------- C20
\* Feeds that reach the line-oriented parse: one JSON value per line, with
\* blank lines and with lines that are not JSON.
LineFeeds ==
    {feed \in Feeds : feed.shape = "lines"}
    \cup {Feed("lines", s, FALSE) :
            s \in {<<Item("bad", NotDict), E1>>,
                   <<Item("bad", NotDict), Item("bad", NotDict)>>,
                   <<E1, Item("blank", NotDict), E5>>}}

\* The lines of a feed that parse as JSON.
ParsingLines(feed) == SelectSeq(feed.items, LAMBDA l : l.t \notin {"blank", "bad"})

\* C20: in the line-oriented parse the ingest fails with the invalid-format
\* error only if no non-blank line parses; when at least one line parses,
\* the blank lines are skipped, the lines that parsed are reconciled and
\* the counts are returned.
C20_FailsOnlyIfNoLineParses ==
    \A feed \in LineFeeds :
        LET r == Ingest(feed)
            good == ParsingLines(feed)
        IN  /\ r.ret = [error |-> "Invalid JSON format"] => good = <<>>
            /\ good /= <<>> =>
                  /\ Counted(r)
                  /\ r = process_daily_file_on(Here, Feed("lines", good, FALSE), now)

\* ---------------------------------------------------------------- C21
\* C21: when a non-empty feed parses and none of the entries it yields is
\* a dictionary (a list mixing objects with other values, a list of
\* numbers, a bare scalar), the ingest returns the no-valid-records error:
\* it never returns the counts 0, 0, 0 for such a feed.
C21_NoDictionaryIsAnError ==
    \A feed \in Feeds :
        LET p == parse_feed(feed)
            r == Ingest(feed)
        IN  ( /\ feed.shape /= "blank"
              /\ p.error \notin {"File is empty", "Invalid JSON format"}
              /\ \A i \in 1..Len(p.data_list) : p.data_list[i].t /= "dict" )
            => /\ r.ret = [error |-> "No valid case data found in file"]
               /\ r.db = Here

\* ---------------------------------------------------------------- C22
\* The history rows an outcome r added to the history at hand.
AddedBy(r) == SubSeq(r.db.hist, Len(case_history) + 1, Len(r.db.hist))

\* Nothing of the case c was written by the outcome r.
Untouched(r, c) ==
    /\ c \in DOMAIN r.db.cases <=> c \in DOMAIN cases
    /\ c \in DOMAIN cases => r.db.cases[c] = cases[c]
    /\ HistoryOf(AddedBy(r), c) = <<>>

\* The case c was written whole by the outcome r: its row is stored, and
\* when history rows were added for it, the row is flagged and its change
\* summary is the last of them, row for row.
WrittenWhole(r, c) ==
    /\ c \in DOMAIN r.db.cases
    /\ c \in DOMAIN cases /\ r.db.cases[c] /= cases[c] => HistoryOf(AddedBy(r), c) /= <<>>
    /\ LET h == HistoryOf(AddedBy(r), c)
           s == r.db.cases[c].change_summary
       IN  h /= <<>> =>
              /\ r.db.cases[c].is_changed
              /\ Len(s) \in 1..Len(h)
              /\ \A i \in 1..Len(s) :
                    LET x == h[Len(h) - Len(s) + i]
                    IN  s[i] = <<x.field_name, x.old_value, x.new_value>>

\* C22: an ingest, whether it completes or fails on its k-th record, leaves
\* no partially applied record: for every cino either its row write and
\* all the history rows of this ingest are there, or nothing of it is; and
\* an ingest that fails leaves nothing of any record.
C22_NoPartialRecord ==
    \A feed \in Feeds :
        LET r == Ingest(feed)
        IN  /\ \A c \in Cinos : Untouched(r, c) \/ WrittenWhole(r, c)
            /\ "error" \in DOMAIN r.ret => \A c \in Cinos : Untouched(r, c)

\* An ingest has just failed on a record, and the store holds one unflagged
\* case and no history: nothing of the failed batch.
C22_Witness ==
    /\ op.name = "process_daily_file"
    /\ ret = [error |-> "Processing failed"]
    /\ DOMAIN cases = {"K1"}
    /\ ~cases["K1"].is_changed
    /\ case_history = <<>>

\* ---------------------------------------------------------------- C23
\* C23: when a failure interrupts a batch ingest after some records were
\* processed, the result returned carries the counts accumulated before
\* the failure, not an error without counts.
C23_PartialCountsReported ==
    \A feed \in Feeds :
        LET data_list == DataList(feed)
            last == LoopTrace(data_list)[Len(data_list)]
            r == Ingest(feed)
        IN  ( /\ parse_feed(feed).error = ""
              /\ last.seen = "raised"
              /\ last.stats /= ZeroStats )
            => /\ DOMAIN last.stats \subseteq DOMAIN r.ret
               /\ \A k \in DOMAIN last.stats : r.ret[k] = last.stats[k]

\* ---------------------------------------------------------------- C24
\* The columns whose changes the audit trail is to record.
AuditedColumns == {"user_notes", "user_side", "is_changed", "date_next_list"}

\* C24: every operation that changes the user_notes, user_side, is_changed
\* or date_next_list of a stored case appends, in the same commit, at least
\* one history row for its cino.
C24_AuditComplete ==
    [][\A c \in DOMAIN cases \cap DOMAIN cases' :
          (\E f \in AuditedColumns : cases'[c][f] /= cases[c][f])
          => \E i \in (Len(case_history) + 1)..Len(case_history') :
                case_history'[i].cino = c]_vars

\* ---------------------------------------------------------------- C25
\* The columns a user owns.
UserOwned == {"user_notes", "user_side", "date_of_decision"}

\* C25: an ingest that classifies stored records as updated leaves their
\* user-owned columns as they were: user_notes, user_side and
\* date_of_decision are not overwritten or cleared by feed data, whether
\* or not the incoming record carries those keys.
C25_UserFieldsKept ==
    \A feed \in Feeds :
        LET r == Ingest(feed)
        IN  Counted(r) =>
               \A c \in DOMAIN cases, f \in UserOwned :
                   r.db.cases[c][f] = cases[c][f]

\* ---------------------------------------------------------------- C26
\* C26: in every reachable state the cino of every history row is the cino
\* of a stored case: a mutation, review or un-review addressed to a cino
\* that is not stored leaves no history row behind.
C26_HistoryRefersToCases ==
    \A i \in 1..Len(case_history) : case_history[i].cino \in DOMAIN cases

\* ---------------------------------------------------------------- C27
\* The outcomes of the single-record operations that report a boolean,
\* addressed to the cino c in the state at hand.
BooleanOutcomes(c) ==
    { mark_case_as_reviewed_on(Here, c, now),
      update_case_hearing_date_on(Here, c, "2024-01-10", now),
      update_case_field_on(Here, c, "petparty_name", "q", now) }
    \cup { update_case_user_side_on(Here, c, u, now) : u \in Sides }
    \cup { restore_complete_case_state_and_unmark_on(Here, c, fetched, now) :
             fetched \in FetchLatestSnapshot(case_history, c) }
    \cup { restore_all_fields_and_unmark_reviewed_on(Here, c, fetched, now) :
             fetched \in FetchLatestSnapshot(case_history, c) }

\* C27: a single-record operation that reports a boolean returns True if
\* and only if a case with the given cino was stored and was modified: for
\* a cino that is not stored it returns False and changes neither table.
C27_TrueIffCaseModified ==
    \A c \in Cinos :
        \A r \in BooleanOutcomes(c) :
            /\ r.ret.ok <=> (c \in DOMAIN cases /\ r.db.cases /= cases)
            /\ c \notin DOMAIN cases => r.db = Here

\* ---------------------------------------------------------------- C28
\* The values of user_side the application knows: the two sides, or unset.
KnownSides == {"petitioner", "respondent", "", NULL}

\* An incoming record of a stored case that carries a user_side of its own.
E10 == Entry([cino |-> "K1", case_no |-> "c", user_side |-> "judge"], <<>>)

\* C28: in every reachable state the user_side of every case is
\* 'petitioner', 'respondent' or unset, whichever operation wrote it last:
\* here the state at hand, and the states a field update or an ingest
\* make of it.
C28_UserSideKnown ==
    /\ \A c \in DOMAIN cases : cases[c].user_side \in KnownSides
    /\ \A c \in DOMAIN cases, v \in FieldValues :
          update_case_field_on(Here, c, "user_side", v, now).db.cases[c].user_side
              \in KnownSides
    /\ LET r == Ingest(Feed("list", <<E10>>, TRUE))
       IN  \A c \in DOMAIN r.db.cases : r.db.cases[c].user_side \in KnownSides


\* ------------------------------------------------- calls side by side
\* Two calls, each an ingest of a one-record feed or a manual creation, on
\* connections of their own to the same database file.  A SELECT reads the
\* committed tables; the first INSERT or UPDATE of a connection opens its
\* transaction and takes the write lock of the file, which one connection
\* holds at a time; commit publishes the transaction and frees the lock.

\* The records of the two calls: one cino, different case numbers, and a
\* decision date and a note in the first only.
RA == Entry([cino |-> "K1", case_no |-> "a", date_of_decision |-> "dd",
             user_notes |-> "n1"], <<>>)
RB == Entry([cino |-> "K1", case_no |-> "b"], <<>>)

RaceRecords == {RA, RB}

RaceKinds == {"ingest", "create"}

\* A table without the constraint: no INSERT is refused.
unique_not_enforced(cs, cino) == FALSE

\* cino TEXT UNIQUE: an INSERT of a stored cino raises IntegrityError.
unique_violation(cs, cino) == cino \in DOMAIN cs

\* Some other connection holds the write lock.
lock_taken(p) == \E q \in Procs \ {p} : conn[q].locked

\* What a failed call returns from its except clause.
failure_of(kind) ==
    IF kind = "ingest" THEN [error |-> "Processing failed"] ELSE [ok |-> FALSE]

\* sqlite3.connect at the start of a call.
RaceConnect(p, kind, case_data) ==
    /\ conn[p].pc = "idle"
    /\ conn' = [conn EXCEPT ![p] = [Idle EXCEPT !.pc = "opened", !.kind = kind,
                                                !.case_data = case_data]]
    /\ UNCHANGED <<cases, case_history, now, op, ret>>

\* The existence check: SELECT ... WHERE cino = ? and fetchone().  The
\* manual creation returns at once when the row is there.
RaceSelect(p) ==
    LET c == conn[p]
        cino == Get(c.case_data.d, "cino", NULL)
        found == IF cino \in DOMAIN cases THEN <<cases[cino]>> ELSE <<>>
    IN  /\ c.pc = "opened"
        /\ conn' = [conn EXCEPT ![p] =
                      IF c.kind = "create" /\ found /= <<>>
                      THEN [c EXCEPT !.pc = "done", !.existing = found,
                                     !.result = [ok |-> FALSE]]
                      ELSE [c EXCEPT !.pc = "selected", !.existing = found]]
        /\ UNCHANGED <<cases, case_history, now, op, ret>>

\* The deltas the call computes from the row its SELECT fetched.
race_changes(c) ==
    IF c.existing = <<>> THEN <<>> ELSE detect_changes(c.existing[1], c.case_data.d)

\* The call writes nothing: an ingest that found the row and no delta.
writes_nothing(c) == c.kind = "ingest" /\ c.existing /= <<>> /\ race_changes(c) = <<>>

\* The ingest of a record without deltas: the counter, and a commit of
\* nothing.
RaceUnchanged(p) ==
    LET c == conn[p]
    IN  /\ c.pc = "selected"
        /\ writes_nothing(c)
        /\ conn' = [conn EXCEPT ![p] =
                      [c EXCEPT !.pc = "done",
                                !.result = [ZeroStats EXCEPT !.unchanged = 1]]]
        /\ UNCHANGED <<cases, case_history, now, op, ret>>

\* The UPDATE or INSERT of the call, which begins its transaction on the
\* tables as committed by then.  The UPDATE writes the deltas computed
\* from the fetched row; the INSERT of a cino stored in the meantime
\* raises, and the connection keeps its lock until it is released.
RaceWrite(p) ==
    LET c == conn[p]
        cino == Get(c.case_data.d, "cino", NULL)
        db == Db(cases, case_history)
    IN  /\ c.pc = "selected"
        /\ ~writes_nothing(c)
        /\ ~lock_taken(p)
        /\ conn' = [conn EXCEPT ![p] =
              IF c.existing /= <<>>
              THEN [c EXCEPT !.pc = "written", !.locked = TRUE,
                             !.pending = update_case_with_changes(db, cino, c.case_data,
                                                                  race_changes(c), now),
                             !.result = [ZeroStats EXCEPT !.updated = 1]]
              ELSE IF insert_raises(c.case_data)
              THEN [c EXCEPT !.pc = "raised", !.result = failure_of(c.kind)]
              ELSE IF unique_violation(cases, get_field_value("cino", c.case_data))
              THEN [c EXCEPT !.pc = "raised", !.locked = TRUE,
                             !.result = failure_of(c.kind)]
              ELSE [c EXCEPT !.pc = "written", !.locked = TRUE,
                             !.pending = insert_new_case(db, c.case_data, now),
                             !.result = IF c.kind = "ingest"
                                        THEN [ZeroStats EXCEPT !.new = 1]
                                        ELSE [ok |-> TRUE]]]
        /\ UNCHANGED <<cases, case_history, now, op, ret>>

\* The write of a call that waited for the lock longer than the timeout
\* of its connection: OperationalError, database is locked.
RaceBusy(p) ==
    LET c == conn[p]
    IN  /\ c.pc = "selected"
        /\ ~writes_nothing(c)
        /\ lock_taken(p)
        /\ conn' = [conn EXCEPT ![p] = [c EXCEPT !.pc = "raised",
                                                 !.result = failure_of(c.kind)]]
        /\ UNCHANGED <<cases, case_history, now, op, ret>>

\* conn.commit() and the return of the call.
RaceCommit(p) ==
    LET c == conn[p]
    IN  /\ c.pc = "written"
        /\ cases' = c.pending.cases
        /\ case_history' = c.pending.hist
        /\ conn' = [conn EXCEPT ![p] = [c EXCEPT !.pc = "done", !.locked = FALSE]]
        /\ UNCHANGED <<now, op, ret>>

\* The connection of a call that raised is never committed or closed by
\* the call; its transaction is rolled back when the connection goes.
RaceRelease(p) ==
    LET c == conn[p]
    IN  /\ c.pc = "raised"
        /\ conn' = [conn EXCEPT ![p] = [c EXCEPT !.pc = "done", !.locked = FALSE]]
        /\ UNCHANGED <<cases, case_history, now, op, ret>>

NextRace ==
    \/ \E p \in Procs, kind \in RaceKinds, r \in RaceRecords : RaceConnect(p, kind, r)
    \/ \E p \in Procs : RaceSelect(p)
    \/ \E p \in Procs : RaceUnchanged(p)
    \/ \E p \in Procs : RaceWrite(p)
    \/ \E p \in Procs : RaceBusy(p)
    \/ \E p \in Procs : RaceCommit(p)
    \/ \E p \in Procs : RaceRelease(p)
    \/ Tick

SpecRace == Init /\ [][NextRace]_vars

\* Both calls have returned and their connections are gone.
BothReturned == \A p \in Procs : conn[p].pc = "done"

\* The call reports that it inserted its record.
ReportsNew(p) ==
    LET r == conn[p].result
    IN  IF "new" \in DOMAIN r THEN r.new = 1
        ELSE IF "ok" \in DOMAIN r THEN r.ok ELSE FALSE

\* The columns a record fills when it is stored.
RecordColumns ==
    TrackedSet \cup {"user_notes", "user_side", "date_of_decision", "raw_data"}

\* The row holds, in the columns cols, what the record of call p carries.
HoldsRecordOf(p, cols) ==
    LET row == cases["K1"]
        own == new_case_row(conn[p].case_data, 0)
    IN  \A f \in cols : row[f] = own[f]

UnreviewOutcomes(db, c) ==
    {restore_complete_case_state_and_unmark_on(db, c, fetched, now).db :
        fetched \in FetchLatestSnapshot(db.hist, c)}
    \cup {restore_all_fields_and_unmark_reviewed_on(db, c, fetched, now).db :
            fetched \in FetchLatestSnapshot(db.hist, c)}
    \cup {remove_from_reviewed_keep_notes_on(db, <<c>>, now).db}

\* C30: a case that is reviewed with a snapshot, then updated by an ingest,
\* and then un-reviewed by any un-review operation keeps in its twelve
\* tracked fields the values that ingest wrote, so that the last record of
\* the feed shows no delta against it.
C30_UnreviewKeepsFeedData ==
    \A c \in DOMAIN cases : \A feed \in CoreFeeds :
        LET ingested == Ingest(feed)
            last == feed.items[Len(feed.items)]
        IN  (/\ Snapshots(case_history, c) /= {}
             /\ ~cases[c].is_changed
             /\ "updated" \in DOMAIN ingested.ret
             /\ ingested.ret.updated > 0
             /\ Get(last.d, "cino", NULL) = c)
            => \A after \in UnreviewOutcomes(ingested.db, c) :
                  /\ \A f \in TrackedSet : after.cases[c][f] = ingested.db.cases[c][f]
                  /\ detect_changes(after.cases[c], last.d) = <<>>

====
